---- MODULE Spec2Model ----
(***************************************************************************)
(* Model of openclass_bot.py: the seen-set store, the scan orchestrator    *)
(* (run_settlement_scan), the adaptive scheduler (settlement_scheduler)    *)
(* and the command surface, as an asyncio program.  A coroutine runs       *)
(* without interruption between two awaits, so every action below is the   *)
(* code between two awaits of one handler.  The awaits of a scan are       *)
(* `await send_settlement_embed` (line 542) and `await asyncio.sleep`      *)
(* (line 549); everything else in a scan (requests.get, time.sleep, the    *)
(* file write) blocks the event loop and is part of the atomic step.       *)
(*                                                                         *)
(* URLs are the integers 1..NumUrls; their order stands for the            *)
(* lexicographic order of the URL strings.                                 *)
(***************************************************************************)
EXTENDS Integers, Sequences, FiniteSets, TLC

\* ---------------------------------------------------------------- bounds
NumUrls == 3        \* distinct settlement URLs the origin can ever list
PostCap == 2        \* value given to MAX_POSTS_PER_RUN (30 in the source), scaled
                    \* so that the cap cuts a run with NumUrls links
ClockQuantum == 60  \* minutes by which the clock advances in one step
MaxCrashes == 1     \* process restarts explored
MaxTextLen == 2     \* tokens in the text of one tag
MaxTags == 1        \* tags of a settlement page
MaxProofTags == 3   \* tags of a settlement page that tells about the proof

\* ------------------------------------------------------------- constants
BASE_INTERVAL_MINUTES == 60
MAX_INTERVAL_MINUTES == 180
MAX_POSTS_PER_RUN == PostCap

NoTime == 0 - 1     \* last_scan_time = None

Urls == 1..NumUrls
Runs == {"sched", "manual"}   \* the scheduler's scan and a command's scan

Min(a, b) == IF a < b THEN a ELSE b
Range(s) == {s[k] : k \in 1..Len(s)}

VARIABLES
    seen_ids,                   \* global seen_ids (line 63)
    file,                       \* content of SEEN_FILE on disk
    CURRENT_INTERVAL_MINUTES,   \* line 66
    last_scan_age,              \* utcnow() - last_scan_time in minutes (line 589),
                                \* NoTime while last_scan_time is None (line 67)
    AUTO_POSTING_ENABLED,       \* line 70
    ready,                      \* on_ready has run in this process
    loop_running,               \* settlement_scheduler.is_running()
    run,                        \* per scan: the frame of run_settlement_scan
    emitted,                    \* history: ids delivered to the channel by this process
    durable_at_crash,           \* history: the ids the seen file held when the
                                \* process last died (before a write in progress)
    lifetime,                   \* history: number of process restarts so far
    probe,                      \* a call of a scraping helper on its own: the
                                \* function, its argument and its result
    ev                          \* history: what the last step did

vars == <<seen_ids, file, CURRENT_INTERVAL_MINUTES, last_scan_age,
          AUTO_POSTING_ENABLED, ready, loop_running, run, emitted,
          durable_at_crash, lifetime, probe, ev>>

\* ------------------------------------------------------------ seen store
\* What SEEN_FILE holds.  kind "missing": no file; "unreadable": open fails;
\* "corrupt": truncated or unparsable JSON; "ok": an object whose "seen_ids" is
\* a list of ids, ids.  The other kinds are JSON that parses but has another
\* shape: "not_object" (the top-level value has no .get), "no_key" (an object
\* without "seen_ids"), "scalar" ("seen_ids" is null or a number) and "string"
\* ("seen_ids" is a string, ids the set of its characters).
Glyphs == {0}       \* the characters of such a string; none is a URL
MissingFile == [kind |-> "missing", ids |-> {}]
CorruptFile == [kind |-> "corrupt", ids |-> {}]
GoodFile(ids) == [kind |-> "ok", ids |-> ids]
MisshapenFiles ==
    {[kind |-> k, ids |-> {}] : k \in {"not_object", "no_key", "scalar"}}
       \cup {[kind |-> "string", ids |-> g] : g \in SUBSET Glyphs}
SeenFiles ==
    {MissingFile, CorruptFile, [kind |-> "unreadable", ids |-> {}]}
       \cup {GoodFile(ids) : ids \in SUBSET Urls}
       \cup MisshapenFiles

\* load_seen_ids (lines 76-89): without a file the set is empty (line 88); an
\* exception of open, json.load, data.get or set() is caught and the set is
\* empty (line 86); otherwise the set is set(data.get("seen_ids", [])), the
\* elements met when iterating the value stored (line 82).
LoadRaises(f) == f.kind \in {"unreadable", "corrupt", "not_object", "scalar"}
load_seen_ids(f) ==
    IF f.kind = "missing" THEN {}
    ELSE IF LoadRaises(f) THEN {}
    ELSE IF f.kind = "no_key" THEN {}
    ELSE f.ids

\* save_seen_ids: open(SEEN_FILE, "w") truncates the file and json.dump writes
\* the whole set; every exception is caught.  outcome "ok": written;
\* "unchanged": open failed; "partial": the write failed after the truncation.
SaveOutcomes == {"ok", "unchanged", "partial"}
save_seen_ids(f, ids, outcome) ==
    CASE outcome = "ok" -> GoodFile(ids)
      [] outcome = "unchanged" -> f
      [] outcome = "partial" -> CorruptFile

\* ------------------------------------------------------- link discovery
\* What requests.get of the index gives: ok says that the request came back
\* with a 2xx status; links are the settlement links of the body received, in
\* document order and already without repetitions (line 125).  A transport
\* error has no body; a non-2xx answer has one, an error page that lists at
\* most one settlement.
Injective(s) == \A j, k \in 1..Len(s) : s[j] = s[k] => j = k
LinkLists == {s \in UNION {[1..n -> Urls] : n \in 0..NumUrls} : Injective(s)}
ErrorBodies == {s \in LinkLists : Len(s) <= 1}
IndexFetches == {[ok |-> TRUE, links |-> s] : s \in LinkLists}
                  \cup {[ok |-> FALSE, links |-> s] : s \in ErrorBodies}

\* fetch_settlement_links: [] on a transport or HTTP failure (lines 107-116),
\* else the links of the body.
fetch_links_ignoring_status(index) == index.links
fetch_settlement_links(index) == IF index.ok THEN index.links ELSE <<>>

\* -------------------------------------------------------- field extractor
\* A text is a sequence of tokens.  Each token stands for one of the pieces of
\* text the reward heuristics tell apart: a recognised reward keyword
\* (lines 295-301), a word of the fallback list that is no keyword on its own
\* (line 330), a dollar amount, the question mark, the colon, a marker such as
\* "varies" (line 177) and a heading phrase (lines 181-193).  Every keyword
\* contains a word of the fallback list ("settlement award" contains "award").
RewardKeywords == {"settlement award"}
FallbackWords == {"cash"}
Markers == {"varies"}
BadPhrases == {"who is eligible"}
Tokens == RewardKeywords \cup FallbackWords \cup Markers \cup BadPhrases
             \cup {"$25", "?", ":"}
Texts == UNION {[1..n -> Tokens] : n \in 0..MaxTextLen}

NoneVal == <<"None">>           \* Python's None
NotListed == <<"Not listed">>   \* the sentinel of line 337
DefaultTitle == <<"Class Action Settlement">>

Contains(text, words) == \E k \in 1..Len(text) : text[k] \in words
EndsWith(text, token) == text # <<>> /\ text[Len(text)] = token

\* lines 303-304: the text after the first colon, else the whole text.
AfterFirst(text, token) ==
    LET k == CHOOSE j \in 1..Len(text) :
                 text[j] = token /\ \A h \in 1..(j - 1) : text[h] # token
    IN SubSeq(text, k + 1, Len(text))
Candidate(text) ==
    IF Contains(text, {":"}) THEN AfterFirst(text, ":") ELSE text

\* is_bad_reward_heading (lines 168-197)
is_bad_reward_heading_lax(text) == Contains(text, BadPhrases)
is_bad_reward_heading(text) ==
    \/ /\ EndsWith(text, "?")
       /\ ~Contains(text, {"$25"})
       /\ ~Contains(text, Markers)
    \/ Contains(text, BadPhrases)

\* A page is the sequence of its tags in document order.  Tag "h2" stands for
\* h2, h3 and h4, which only the first pass reads (line 284); tag "p" stands
\* for p, li and strong, which the fallback reads as well (line 326).  The
\* pages have no h1, a or button, and no text about a deadline.
TagNames == {"h2", "p"}
Tags == [name : TagNames, text : Texts]
Pages == UNION {[1..n -> Tags] : n \in 0..MaxTags}

First(S) == CHOOSE k \in S : \A j \in S : k <= j

\* lines 284-308: the first tag with a keyword whose candidate is no heading.
KeywordReward(page) ==
    LET hits == {k \in 1..Len(page) :
                    /\ page[k].text # <<>>
                    /\ Contains(page[k].text, RewardKeywords)
                    /\ ~is_bad_reward_heading(Candidate(page[k].text))}
    IN IF hits = {} THEN NoneVal ELSE Candidate(page[First(hits)].text)

\* lines 325-333: the first p, li or strong with a "$" and a fallback word.
FallbackHitAnyLine(tag) ==
    /\ tag.name = "p"
    /\ Contains(tag.text, FallbackWords \cup RewardKeywords)
FallbackHit(tag) ==
    /\ tag.name = "p"
    /\ Contains(tag.text, {"$25"})
    /\ Contains(tag.text, FallbackWords \cup RewardKeywords)
FallbackReward(page) ==
    LET hits == {k \in 1..Len(page) : FallbackHit(page[k])}
    IN IF hits = {} THEN NoneVal ELSE page[First(hits)].text

\* lines 277, 292-337
Reward(page) ==
    LET reward == KeywordReward(page)
    IN IF reward # NoneVal THEN reward
       ELSE IF FallbackReward(page) # NoneVal THEN FallbackReward(page)
       ELSE NotListed

\* lines 342-387, 200-228: on these pages every paragraph is short, so the
\* summary is the first paragraph with a text, as it stands.
Summary(page) ==
    LET hits == {k \in 1..Len(page) :
                    page[k].name = "p" /\ page[k].text # <<>>}
    IN IF hits = {} THEN NoneVal ELSE page[First(hits)].text

\* ------------------------------------------------------------- the proof
\* The lines that matter to the proof heuristics: an empty tag, a heading that
\* mentions the proof ("Proof", "Proof Required?"), an answer, and a line with
\* the label, a colon and an answer ("Proof: No", or nothing after the colon).
\* "no" and "yes" are answers score_proof_answer knows as whole texts
\* (lines 139, 147), the next three hold a phrase it looks for (lines 137,
\* 143, 147) and "see notice" is an answer it does not know.
Answers == {"no", "yes", "not required", "may be required", "required",
            "see notice"}
ProofTexts ==
    {<<>>, <<"proof">>, <<"proof", "required">>, <<"proof", ":">>}
       \cup {<<a>> : a \in Answers}
       \cup {<<"proof", ":", a>> : a \in Answers}
ProofTags == [name : {"p"}, text : ProofTexts]
ProofPages == UNION {[1..n -> ProofTags] : n \in 0..MaxProofTags}

\* "no proof" in low: the word "no" followed by the word "proof".
HasNoProof(text) ==
    \E k \in 1..(Len(text) - 1) : text[k] = "no" /\ text[k + 1] = "proof"
IsNegative(text) ==
    \/ Contains(text, {"not required"})
    \/ HasNoProof(text)
    \/ text = <<"no">>
IsMaybe(text) == Contains(text, {"may be required"})
IsPositive(text) ==
    \/ Contains(text, {"required", "not required", "may be required"})
    \/ text = <<"yes">>

\* score_proof_answer (lines 132-150)
score_proof_answer(text) ==
    IF IsNegative(text) THEN 3
    ELSE IF IsMaybe(text) THEN 2
    ELSE IF IsPositive(text) THEN 1
    ELSE 0

\* normalize_proof_answer (lines 153-165)
NegativeSentence == <<"No, proof is not required.">>
MaybeSentence == <<"Proof may be required.">>
PositiveSentence == <<"Yes, proof is required.">>
normalize_proof_answer(text) ==
    IF IsNegative(text) THEN NegativeSentence
    ELSE IF IsMaybe(text) THEN MaybeSentence
    ELSE IF IsPositive(text) THEN PositiveSentence
    ELSE text

\* lines 316-322: a tag with a text that mentions the proof is a same-line
\* candidate when it holds a colon and a heading otherwise.
MentionsProof(tag) == tag.text # <<>> /\ Contains(tag.text, {"proof"})
Positions(page) == [k \in 1..Len(page) |-> k]
SameLinePositions(page) ==
    SelectSeq(Positions(page),
              LAMBDA k : MentionsProof(page[k]) /\ Contains(page[k].text, {":"}))
HeadingPositions(page) ==
    SelectSeq(Positions(page),
              LAMBDA k : MentionsProof(page[k]) /\ ~Contains(page[k].text, {":"}))

\* lines 404-409: the position of the next sibling with a text, 0 without one.
NextSibling(page, k) ==
    LET later == {j \in (k + 1)..Len(page) : page[j].text # <<>>}
    IN IF later = {} THEN 0 ELSE First(later)

\* The values scored, in the order in which the code meets them: those of
\* the same-line candidates (lines 395-396), then those of the headings that
\* have a sibling (lines 403-411).
SameLineValues(page) ==
    [n \in 1..Len(SameLinePositions(page)) |->
        AfterFirst(page[SameLinePositions(page)[n]].text, ":")]
AnsweredHeadings(page) ==
    SelectSeq(HeadingPositions(page), LAMBDA k : NextSibling(page, k) # 0)
HeadingValues(page) ==
    [n \in 1..Len(AnsweredHeadings(page)) |->
        page[NextSibling(page, AnsweredHeadings(page)[n])].text]
ProofValues(page) == SameLineValues(page) \o HeadingValues(page)

\* lines 398, 413: if s > best_score
BeatsOrTies(s, best_score) == s >= best_score
Beats(s, best_score) == s > best_score

\* lines 394-415: the loops over the values, from value n on, with
\* best_score and proof_answer_text as they stand.
RECURSIVE BestAnswer(_, _, _, _)
BestAnswer(values, n, best_score, proof_answer_text) ==
    IF n > Len(values) THEN proof_answer_text
    ELSE IF Beats(score_proof_answer(values[n]), best_score)
    THEN BestAnswer(values, n + 1, score_proof_answer(values[n]), values[n])
    ELSE BestAnswer(values, n + 1, best_score, proof_answer_text)

\* lines 391-419: best_score starts at -1; an answer that is None or empty
\* gives no proof.
Proof(page) ==
    LET proof_answer_text == BestAnswer(ProofValues(page), 1, 0 - 1, NoneVal)
    IN IF proof_answer_text = NoneVal \/ proof_answer_text = <<>>
       THEN NoneVal
       ELSE normalize_proof_answer(proof_answer_text)

\* What requests.get of a settlement page gives: a failure (a transport error
\* or a non-2xx status), or a page.
FailedFetch == [ok |-> FALSE, page |-> <<>>]
ItemFetches ==
    {FailedFetch} \cup {[ok |-> TRUE, page |-> p] : p \in Pages \cup ProofPages}

\* lines 255-263
PlaceholderWithoutReward(url) ==
    [id |-> url, title |-> DefaultTitle, reward |-> NoneVal,
     deadline |-> NoneVal, summary |-> NoneVal, proof |-> NoneVal,
     claim_url |-> NoneVal]
Placeholder(url) ==
    [id |-> url, title |-> DefaultTitle, reward |-> NotListed,
     deadline |-> NoneVal, summary |-> NoneVal, proof |-> NoneVal,
     claim_url |-> NoneVal]

\* fetch_settlement_details (lines 231-440)
fetch_settlement_details(url, response) ==
    IF ~response.ok THEN Placeholder(url)
    ELSE [id |-> url, title |-> DefaultTitle,
          reward |-> Reward(response.page), deadline |-> NoneVal,
          summary |-> Summary(response.page), proof |-> Proof(response.page),
          claim_url |-> NoneVal]

\* What a scan keeps of the record between its awaits (lines 541-544); the
\* other fields go to the embed and are not read again.  Extracted(url) are
\* the records a scan may hold for url: that of a failed fetch and that of a
\* page.
Kept(details) == [id |-> details.id]
ScanFetches == {FailedFetch, [ok |-> TRUE, page |-> <<>>]}
Extracted(url) ==
    {Kept(fetch_settlement_details(url, response)) : response \in ScanFetches}

NoDetails == [id |-> 0]

\* ------------------------------------------------------ scan orchestrator
\* line 527: new_links = [u for u in links if u not in seen_ids]
NewLinksUnfiltered(links, seen) == links
NewLinks(links, seen) == SelectSeq(links, LAMBDA u : u \notin seen)

\* lines 532-535: sorted(new_links)[:max_posts]
Capped(s, max_posts) == SubSeq(s, 1, Min(max_posts, Len(s)))
SortedCapped(new_links, max_posts) ==
    Capped(SortSeq(new_links, LAMBDA a, b : a < b), max_posts)

\* lines 527-535: the links a run takes up.
BatchCapBeforeFilter(links, seen, max_posts) ==
    NewLinks(SortedCapped(links, max_posts), seen)
Batch(links, seen, max_posts) ==
    SortedCapped(NewLinks(links, seen), max_posts)

\* The frame of run_settlement_scan.
\* pauses counts the asyncio.sleep calls of the run that are over.
IdleRun == [pc |-> "idle", new_links |-> <<>>, i |-> 0, count |-> 0,
            pauses |-> 0, details |-> NoDetails]

InFlight(r) == run[r].pc # "idle"

\* What the last step did.  op: the handler; who: the scan concerned; scan:
\* "none" when run_settlement_scan was not called in the step, else how far the
\* call got: "no_channel", "index_failed", "empty" (an index without links),
\* "listed"; fresh: the links listed that were not in seen_ids; ended: the
\* scan returned ("returned", with result the count returned) or raised
\* ("raised") in the step.
Ev(op, who, scan, fresh, ended, result) ==
    [op |-> op, who |-> who, scan |-> scan, fresh |-> fresh, ended |-> ended,
     result |-> result]
Plain(op) == Ev(op, "none", "none", {}, "no", 0)

\* lines 576-601 and 659-664: what the caller does with the count n returned by
\* run_settlement_scan.  The scheduler stamps last_scan_time and adapts the
\* interval; the command only reports n.
\* lines 581, 597: min(MAX_INTERVAL_MINUTES, CURRENT_INTERVAL_MINUTES * 2)
BackedOffUncapped(interval) == interval * 2
BackedOff(interval) == Min(MAX_INTERVAL_MINUTES, interval * 2)

ReturnedAlwaysBookkeeps(r, n) ==
    /\ last_scan_age' = 0
    /\ CURRENT_INTERVAL_MINUTES' =
          IF n = 0
          THEN BackedOff(CURRENT_INTERVAL_MINUTES)
          ELSE BASE_INTERVAL_MINUTES
Returned(r, n) ==
    IF r = "sched"
    THEN /\ last_scan_age' = 0
         /\ CURRENT_INTERVAL_MINUTES' =
               IF n = 0
               THEN BackedOff(CURRENT_INTERVAL_MINUTES)
               ELSE BASE_INTERVAL_MINUTES
    ELSE UNCHANGED <<last_scan_age, CURRENT_INTERVAL_MINUTES>>

\* lines 514-542: run_settlement_scan from its call to its first await, or to
\* its return when there is nothing to post.  channel: a channel was found;
\* index: the index fetch.
StartScan(r, op, channel, index) ==
    LET links == fetch_settlement_links(index)
        fresh == Range(links) \ seen_ids
        new_links == Batch(links, seen_ids, MAX_POSTS_PER_RUN)
        scan == IF ~channel THEN "no_channel"
                ELSE IF ~index.ok THEN "index_failed"
                ELSE IF links = <<>> THEN "empty" ELSE "listed"
        nothing == \/ ~channel
                   \/ links = <<>>
                   \/ NewLinks(links, seen_ids) = <<>>
                   \/ new_links = <<>>
    IN IF nothing
       THEN /\ run' = [run EXCEPT ![r] = IdleRun]
            /\ Returned(r, 0)
            /\ ev' = Ev(op, r, scan, IF channel THEN fresh ELSE {}, "returned", 0)
       ELSE /\ \E details \in Extracted(new_links[1]) :
                  run' = [run EXCEPT ![r] =
                            [pc |-> "send", new_links |-> new_links, i |-> 1,
                             count |-> 0, pauses |-> 0, details |-> details]]
            /\ UNCHANGED <<last_scan_age, CURRENT_INTERVAL_MINUTES>>
            /\ ev' = Ev(op, r, scan, fresh, "no", 0)

\* No call of a scraping helper on its own.
NoProbe == [fn |-> "none", done |-> FALSE]

\* The module-level state of a fresh process (lines 63-70).
InitMemory ==
    /\ seen_ids = {}
    /\ CURRENT_INTERVAL_MINUTES = BASE_INTERVAL_MINUTES
    /\ last_scan_age = NoTime
    /\ AUTO_POSTING_ENABLED = TRUE
    /\ ready = FALSE
    /\ loop_running = FALSE
    /\ run = [r \in Runs |-> IdleRun]
    /\ emitted = {}
    /\ durable_at_crash = {}
    /\ lifetime = 0
    /\ ev = Plain("init")

\* A first start: there is no seen file yet.
Init ==
    /\ InitMemory
    /\ file = MissingFile
    /\ probe = NoProbe

\* ---------------------------------------------------------------- events
\* on_ready (lines 609-625).  discord.py may call it again after a reconnect
\* (the handler itself guards the restart of the loop with is_running()).
on_ready ==
    /\ seen_ids' = load_seen_ids(file)
    /\ ready' = TRUE
    /\ loop_running' = TRUE
    /\ ev' = Plain("on_ready")
    /\ UNCHANGED <<file, CURRENT_INTERVAL_MINUTES, last_scan_age,
                   AUTO_POSTING_ENABLED, run, emitted, durable_at_crash, lifetime, probe>>

\* line 589: the scan is skipped while now - last_scan_time < interval.
DueOffByOne(age, interval) == ~(age <= interval)
Due(age, interval) == ~(age < interval)

\* settlement_scheduler (lines 558-601), one iteration of the loop up to its
\* first await inside run_settlement_scan.  tasks.loop runs the iterations one
\* after the other, so no tick comes while the scheduler's own scan is in
\* flight.
settlement_scheduler ==
    /\ ready
    /\ loop_running
    /\ ~InFlight("sched")
    /\ IF ~AUTO_POSTING_ENABLED
       THEN /\ ev' = Plain("tick")
            /\ UNCHANGED <<run, last_scan_age, CURRENT_INTERVAL_MINUTES>>
       ELSE IF last_scan_age = NoTime
                  \/ Due(last_scan_age, CURRENT_INTERVAL_MINUTES)
       THEN \E channel \in BOOLEAN, index \in IndexFetches :
               StartScan("sched", "tick", channel, index)
       ELSE /\ ev' = Plain("tick")
            /\ UNCHANGED <<run, last_scan_age, CURRENT_INTERVAL_MINUTES>>
    /\ UNCHANGED <<seen_ids, file, AUTO_POSTING_ENABLED, ready,
                   loop_running, emitted, durable_at_crash, lifetime, probe>>

\* oca_next / slash_oca_next (lines 650-664, 763-779): a command starts a scan
\* in the channel it was typed in.
oca_next ==
    /\ ready
    /\ ~InFlight("manual")
    /\ \E index \in IndexFetches :
          StartScan("manual", "oca_next", TRUE, index)
    /\ UNCHANGED <<seen_ids, file, AUTO_POSTING_ENABLED, ready,
                   loop_running, emitted, durable_at_crash, lifetime, probe>>

\* line 544: seen_ids.add(details["id"])
CommitWholeBatch(seen, r) == seen \cup Range(run[r].new_links)
Commit(seen, r) == seen \cup {run[r].details.id}

\* lines 447-496, inside `await channel.send`: the embed reaches the channel.
Deliver(r) ==
    /\ run[r].pc = "send"
    /\ run' = [run EXCEPT ![r].pc = "sent"]
    /\ emitted' = emitted \cup {run[r].details.id}
    /\ ev' = Ev("deliver", r, "none", {}, "no", 0)
    /\ UNCHANGED <<seen_ids, file, CURRENT_INTERVAL_MINUTES, last_scan_age,
                   AUTO_POSTING_ENABLED, ready, loop_running, durable_at_crash, lifetime, probe>>

\* line 548: there is a pause after item i of n unless it is the last.
PauseAfterEvery(i, n) == i <= n
PauseAfter(i, n) == i < n

\* lines 542-551: channel.send returned; the id is added and saved, then the
\* run sleeps before its next item or returns its count.
SendDone(r) ==
    /\ run[r].pc = "sent"
    /\ LET u == run[r].details.id
           n == run[r].count + 1
       IN /\ seen_ids' = Commit(seen_ids, r)
          /\ \E outcome \in SaveOutcomes :
                file' = save_seen_ids(file, seen_ids', outcome)
          /\ IF PauseAfter(run[r].i, Len(run[r].new_links))
             THEN /\ run' = [run EXCEPT ![r].pc = "sleep", ![r].count = n]
                  /\ ev' = Ev("send_done", r, "none", {}, "no", 0)
                  /\ UNCHANGED <<last_scan_age, CURRENT_INTERVAL_MINUTES>>
             ELSE /\ run' = [run EXCEPT ![r] = IdleRun]
                  /\ ev' = Ev("send_done", r, "none", {}, "returned", n)
                  /\ Returned(r, n)
    /\ UNCHANGED <<AUTO_POSTING_ENABLED, ready, loop_running, emitted,
                   durable_at_crash, lifetime, probe>>

\* line 542: channel.send raised without delivering the embed.
\* run_settlement_scan has no handler, so the exception leaves it and its
\* caller.  For the scheduler, tasks.loop either
\* retries the iteration later (connection errors) or ends the loop.
SendFail(r) ==
    /\ run[r].pc = "send"
    /\ run' = [run EXCEPT ![r] = IdleRun]
    /\ ev' = Ev("send_fail", r, "none", {}, "raised", 0)
    /\ IF r = "sched" THEN loop_running' \in BOOLEAN ELSE UNCHANGED loop_running
    /\ UNCHANGED <<seen_ids, file, CURRENT_INTERVAL_MINUTES, last_scan_age,
                   AUTO_POSTING_ENABLED, ready, emitted, durable_at_crash, lifetime, probe>>

\* lines 549, 540-542, 551: the pause is over; the next item is extracted and
\* sent, or the loop is over and the run returns its count.
SleepDone(r) ==
    /\ run[r].pc = "sleep"
    /\ IF run[r].i < Len(run[r].new_links)
       THEN /\ \E details \in Extracted(run[r].new_links[run[r].i + 1]) :
                  run' = [run EXCEPT ![r].pc = "send", ![r].i = @ + 1,
                            ![r].pauses = @ + 1, ![r].details = details]
            /\ ev' = Ev("sleep_done", r, "none", {}, "no", 0)
            /\ UNCHANGED <<last_scan_age, CURRENT_INTERVAL_MINUTES>>
       ELSE /\ run' = [run EXCEPT ![r] = IdleRun]
            /\ ev' = Ev("sleep_done", r, "none", {}, "returned", run[r].count)
            /\ Returned(r, run[r].count)
    /\ UNCHANGED <<seen_ids, file,
                   AUTO_POSTING_ENABLED, ready, loop_running, emitted,
                   durable_at_crash, lifetime, probe>>

\* oca_stop / slash_oca_stop (lines 708-714, 822-832)
oca_stop ==
    /\ ready
    /\ AUTO_POSTING_ENABLED' = FALSE
    /\ ev' = Plain("oca_stop")
    /\ UNCHANGED <<seen_ids, file, CURRENT_INTERVAL_MINUTES, last_scan_age,
                   ready, loop_running, run, emitted, durable_at_crash, lifetime, probe>>

\* oca_start / slash_oca_start (lines 723-729, 844-853)
oca_start ==
    /\ ready
    /\ AUTO_POSTING_ENABLED' = TRUE
    /\ ev' = Plain("oca_start")
    /\ UNCHANGED <<seen_ids, file, CURRENT_INTERVAL_MINUTES, last_scan_age,
                   ready, loop_running, run, emitted, durable_at_crash, lifetime, probe>>

\* ----------------------------------------------------------- environment
\* Time passes.  An age past MAX_INTERVAL_MINUTES compares with every interval
\* as MAX_INTERVAL_MINUTES does, so the age saturates there.
Advance ==
    /\ last_scan_age # NoTime
    /\ last_scan_age < MAX_INTERVAL_MINUTES
    /\ last_scan_age' = Min(last_scan_age + ClockQuantum, MAX_INTERVAL_MINUTES)
    /\ ev' = Plain("advance")
    /\ UNCHANGED <<seen_ids, file, CURRENT_INTERVAL_MINUTES,
                   AUTO_POSTING_ENABLED, ready, loop_running, run, emitted,
                   durable_at_crash, lifetime, probe>>

\* The module-level state of a fresh process (lines 63-70).
Restarted ==
    /\ seen_ids' = {}
    /\ CURRENT_INTERVAL_MINUTES' = BASE_INTERVAL_MINUTES
    /\ last_scan_age' = NoTime
    /\ AUTO_POSTING_ENABLED' = TRUE
    /\ ready' = FALSE
    /\ loop_running' = FALSE
    /\ run' = [r \in Runs |-> IdleRun]
    /\ emitted' = {}
    /\ durable_at_crash' = load_seen_ids(file)
    /\ lifetime' = lifetime + 1
    /\ UNCHANGED probe

\* The process dies between two steps and is started again; the file stays.
Crash ==
    /\ lifetime < MaxCrashes
    /\ Restarted
    /\ ev' = Plain("crash")
    /\ UNCHANGED file

\* The process dies inside save_seen_ids (lines 94-95), after open(..., "w")
\* truncated the file and before json.dump finished.
CrashInSave(r) ==
    /\ lifetime < MaxCrashes
    /\ run[r].pc = "sent"
    /\ Restarted
    /\ file' = CorruptFile
    /\ ev' = Plain("crash_in_save")

\* One process lifetime.
Next ==
    \/ on_ready
    \/ settlement_scheduler
    \/ oca_next
    \/ \E r \in Runs : Deliver(r)
    \/ \E r \in Runs : SendDone(r)
    \/ \E r \in Runs : SendFail(r)
    \/ \E r \in Runs : SleepDone(r)
    \/ oca_stop
    \/ oca_start
    \/ Advance

Spec == Init /\ [][Next]_vars

\* The store and the orchestrator across process restarts: scans started by
\* commands, crashes, and the load at the next start.
NextCrash ==
    \/ on_ready
    \/ oca_next
    \/ Deliver("manual")
    \/ SendDone("manual")
    \/ SendFail("manual")
    \/ SleepDone("manual")
    \/ Crash
    \/ CrashInSave("manual")

SpecCrash == Init /\ [][NextCrash]_vars

\* The same, started on whatever a seen file may hold.
InitLoad ==
    /\ InitMemory
    /\ file \in SeenFiles
    /\ probe = NoProbe

SpecLoad == InitLoad /\ [][NextCrash]_vars

\* ------------------------------------------------------ scraping helpers
\* The scraping helpers are functions of their argument and of what the
\* origin answers.  Each behaviour of SpecScrape is one call: the call with
\* its argument, then its result.
HeadingCall(text) ==
    [fn |-> "is_bad_reward_heading", text |-> text, done |-> FALSE]
DetailsCall(url, response) ==
    [fn |-> "fetch_settlement_details", url |-> url, response |-> response,
     done |-> FALSE]

InitScrape ==
    /\ InitMemory
    /\ file = MissingFile
    /\ \/ \E text \in Texts : probe = HeadingCall(text)
       \/ \E url \in Urls, response \in ItemFetches :
             probe = DetailsCall(url, response)

memory == <<seen_ids, file, CURRENT_INTERVAL_MINUTES, last_scan_age,
            AUTO_POSTING_ENABLED, ready, loop_running, run, emitted,
            durable_at_crash, lifetime, ev>>

CallHeading ==
    /\ probe.fn = "is_bad_reward_heading"
    /\ ~probe.done
    /\ probe' = [fn |-> probe.fn, text |-> probe.text, done |-> TRUE,
                 out |-> is_bad_reward_heading(probe.text)]
    /\ UNCHANGED memory

CallDetails ==
    /\ probe.fn = "fetch_settlement_details"
    /\ ~probe.done
    /\ probe' = [fn |-> probe.fn, url |-> probe.url,
                 response |-> probe.response, done |-> TRUE,
                 out |-> fetch_settlement_details(probe.url, probe.response)]
    /\ UNCHANGED memory

NextScrape == CallHeading \/ CallDetails

SpecScrape == InitScrape /\ [][NextScrape]_vars

\* ------------------------------------------------------ a healthy service
\* The service while everything around it works: auto-posting is never
\* stopped, every scan finds a channel and an index that lists every URL not
\* yet seen, channel.send never raises, and save_seen_ids writes the file.
Discovered ==
    ev'.scan # "none" => (ev'.scan = "listed" /\ ev'.fresh = Urls \ seen_ids)
Connect == ~ready /\ on_ready
HealthyTick == settlement_scheduler /\ Discovered
HealthyCommand == oca_next /\ Discovered
HealthySendDone(r) == SendDone(r) /\ file' = GoodFile(seen_ids')

NextLive ==
    \/ on_ready
    \/ HealthyTick
    \/ HealthyCommand
    \/ \E r \in Runs : Deliver(r)
    \/ \E r \in Runs : HealthySendDone(r)
    \/ \E r \in Runs : SleepDone(r)
    \/ oca_start
    \/ Advance

\* The bot connects (bot.run, line 870); tasks.loop calls the scheduler every
\* 60 seconds; time passes; every await of a run (channel.send,
\* asyncio.sleep) completes and the event loop resumes the run.
FairLive ==
    /\ WF_vars(Connect)
    /\ WF_vars(HealthyTick)
    /\ WF_vars(Advance)
    /\ \A r \in Runs :
          /\ WF_vars(Deliver(r))
          /\ WF_vars(HealthySendDone(r))
          /\ WF_vars(SleepDone(r))

SpecLive == Init /\ [][NextLive]_vars /\ FairLive

\* ================================================================ claims
Happened(op, r) == ev'.op = op /\ ev'.who = r

\* The elements of a set of URLs in ascending order, and its first n.
RECURSIVE Ascending(_)
Ascending(S) ==
    IF S = {} THEN <<>>
    ELSE LET m == CHOOSE x \in S : \A y \in S : x <= y
         IN <<m>> \o Ascending(S \ {m})
FirstAscending(S, n) == SubSeq(Ascending(S), 1, Min(n, Cardinality(S)))

\* C1: within one process lifetime, whatever the interleaving of scheduled and
\* manual scans, no URL is delivered to the channel twice: every delivery is of
\* a URL this process has not delivered before.
C1_EmittedAtMostOnce ==
    [][\A r \in Runs : Happened("deliver", r) => run[r].details.id \notin emitted]_vars

\* C2: a run that lists links L with seen set S posts the first
\* MAX_POSTS_PER_RUN elements of L \ S in ascending order, one after the other
\* in that order, and returns how many it posted.
C2_RunPostsSortedPrefix ==
    [][/\ ev'.scan = "listed" =>
            LET r == ev'.who
                expected == FirstAscending(ev'.fresh, MAX_POSTS_PER_RUN)
            IN IF expected = <<>>
               THEN ev'.ended = "returned" /\ ev'.result = 0 /\ emitted' = emitted
               ELSE run'[r].new_links = expected /\ run'[r].count = 0
       /\ \A r \in Runs :
              /\ Happened("deliver", r) =>
                    run[r].details.id = run[r].new_links[run[r].count + 1]
              /\ (InFlight(r) /\ ev'.who = r /\ ev'.ended # "no") =>
                    /\ ev'.ended = "returned"
                    /\ ev'.result = Len(run[r].new_links)
                    /\ run[r].count + 1 = Len(run[r].new_links)]_vars

\* C3: a scan whose index lists only links that are already in seen_ids returns
\* 0 at once: nothing is fetched or sent, seen_ids and the seen file stay as
\* they are and save_seen_ids is not called.
C3_AllSeenIsNoOp ==
    [][(ev'.scan = "listed" /\ ev'.fresh = {}) =>
          /\ ev'.ended = "returned"
          /\ ev'.result = 0
          /\ ev'.op # "send_done"
          /\ run'[ev'.who] = IdleRun
          /\ UNCHANGED <<seen_ids, file, emitted>>]_vars

C3_Witness ==
    /\ ev.scan = "listed"
    /\ ev.fresh = {}
    /\ ev.ended = "returned"
    /\ seen_ids # {}

\* C4: an id enters seen_ids either by the load of on_ready or by the commit of
\* a run whose send of that very id has returned: the id was extracted by the
\* run, has been delivered, and only then is it added.
C4_CommitAfterEmit ==
    [][\A u \in seen_ids' \ seen_ids :
          \/ ev'.op = "on_ready"
          \/ /\ u \in emitted
             /\ \E r \in Runs : /\ Happened("send_done", r)
                                /\ run[r].pc = "sent"
                                /\ run[r].details.id = u]_vars

C4_Witness ==
    /\ ev.op = "send_done"
    /\ ev.ended = "no"
    /\ seen_ids # {}
    /\ seen_ids \subseteq emitted

\* C5: a scheduled run that emitted nothing leaves the interval at
\* min(MAX_INTERVAL_MINUTES, 2 * old), one that emitted at least one item leaves
\* it at BASE_INTERVAL_MINUTES, and the interval always lies between the two.
C5_AdaptiveBackoff ==
    /\ [][\A n \in 0..NumUrls :
            (/\ ev'.who = "sched"
             /\ ev'.ended # "no"
             /\ n = (IF ev'.ended = "returned" THEN ev'.result
                     ELSE run["sched"].count)) =>
               CURRENT_INTERVAL_MINUTES' =
                  IF n = 0
                  THEN Min(MAX_INTERVAL_MINUTES, CURRENT_INTERVAL_MINUTES * 2)
                  ELSE BASE_INTERVAL_MINUTES]_vars
    /\ [](/\ BASE_INTERVAL_MINUTES <= CURRENT_INTERVAL_MINUTES
          /\ CURRENT_INTERVAL_MINUTES <= MAX_INTERVAL_MINUTES)

\* C6: a tick with auto-posting disabled starts no scan and leaves the interval
\* and last_scan_time alone; a tick with auto-posting enabled starts a scan when
\* last_scan_time is None, and otherwise exactly when the time since
\* last_scan_time is at least CURRENT_INTERVAL_MINUTES.
C6_TickGating ==
    [][ev'.op = "tick" =>
          /\ ~AUTO_POSTING_ENABLED =>
                /\ ev'.scan = "none"
                /\ UNCHANGED <<CURRENT_INTERVAL_MINUTES, last_scan_age>>
          /\ (AUTO_POSTING_ENABLED /\ last_scan_age = NoTime) => ev'.scan # "none"
          /\ (AUTO_POSTING_ENABLED /\ last_scan_age # NoTime) =>
                (ev'.scan # "none" <=> last_scan_age >= CURRENT_INTERVAL_MINUTES)]_vars

C6_Witness ==
    /\ ev.op = "tick"
    /\ ev.scan = "listed"
    /\ ev.ended = "no"
    /\ last_scan_age # NoTime
    /\ last_scan_age = CURRENT_INTERVAL_MINUTES
    /\ CURRENT_INTERVAL_MINUTES > BASE_INTERVAL_MINUTES

\* C7: at most one scan is in flight at any time.
C7_OneScanAtATime == ~(InFlight("sched") /\ InFlight("manual"))

\* C8: CURRENT_INTERVAL_MINUTES and last_scan_time are changed only by the
\* scheduler, in the step in which its own run returns; a scan started by a
\* command leaves both as they are, whatever it returns.
C8_ManualRunsTransparent ==
    [][/\ (/\ ev'.op # "advance"
           /\ <<CURRENT_INTERVAL_MINUTES, last_scan_age>>' #
                 <<CURRENT_INTERVAL_MINUTES, last_scan_age>>) =>
             (ev'.who = "sched" /\ ev'.ended = "returned")
       /\ ev'.who = "manual" =>
             UNCHANGED <<CURRENT_INTERVAL_MINUTES, last_scan_age>>]_vars

C8_Witness ==
    /\ ev.who = "manual"
    /\ ev.ended = "returned"
    /\ ev.result > 0
    /\ CURRENT_INTERVAL_MINUTES > BASE_INTERVAL_MINUTES
    /\ last_scan_age > 0

\* C9: within one process lifetime no step removes an id from seen_ids.
C9_SeenGrowsMonotonically == [][seen_ids \subseteq seen_ids']_vars

\* C10: after a crash and the load of the next start, seen_ids holds every id
\* whose commit was complete, the id written to the seen file, when the process
\* died; only the item in flight at the crash may be missing.
C10_CrashLosesNoCommittedId ==
    (lifetime > 0 /\ ready) => durable_at_crash \subseteq seen_ids

\* C11: save_seen_ids replaces the seen file atomically: whatever happens
\* during the write, a crash of the process included, a step leaves in the file
\* either the complete content it held before or the complete new content, the
\* whole seen set with the id just committed.
C11_SaveIsAtomic ==
    [][\/ file' = file
       \/ \E r \in Runs : /\ run[r].pc = "sent"
                          /\ file' = GoodFile(Commit(seen_ids, r))]_vars

\* C12: load_seen_ids always returns normally; on a seen file that is missing,
\* unreadable, corrupt or of another shape than a list of ids it leaves
\* seen_ids empty, and on a well-formed file it leaves exactly the ids stored.
C12_LoadToleratesAnyFile ==
    [][ev'.op = "on_ready" =>
          seen_ids' = (IF file.kind = "ok" THEN file.ids ELSE {})]_vars

\* C13: a save_seen_ids that fails is not fatal and takes nothing back: the
\* run that committed the id goes on with its next item or returns, the item
\* counted; an id that seen_ids holds and the file lacks stays in seen_ids for
\* the rest of the process; and such an id, once delivered, is not delivered
\* again by this process.
C13_SaveFailureKeepsTheId ==
    [][/\ \A r \in Runs :
             (Happened("send_done", r) /\ file' # GoodFile(seen_ids')) =>
                /\ run[r].details.id \in seen_ids'
                /\ ev'.ended # "raised"
                /\ IF run[r].i < Len(run[r].new_links)
                   THEN /\ run'[r].pc = "sleep"
                        /\ run'[r].count = run[r].count + 1
                   ELSE ev'.result = run[r].count + 1
       /\ lifetime' = lifetime =>
             \A u \in seen_ids \ load_seen_ids(file) : u \in seen_ids'
       /\ \A r \in Runs :
             Happened("deliver", r) =>
                ~(/\ run[r].details.id \in emitted
                  /\ run[r].details.id \notin load_seen_ids(file))]_vars

\* C14: when the fetch of the index fails, by a transport error or a non-2xx
\* status, fetch_settlement_links returns the empty list whatever the body
\* holds, and the scan returns 0 in the same step without raising: no run is
\* left in flight, nothing is delivered and neither seen_ids nor the seen file
\* changes.
C14_IndexFailureIsNoOp ==
    [][/\ \A index \in IndexFetches :
             ~index.ok => fetch_settlement_links(index) = <<>>
       /\ ev'.scan = "index_failed" =>
             /\ ev'.ended = "returned"
             /\ ev'.result = 0
             /\ run'[ev'.who] = IdleRun
             /\ UNCHANGED <<seen_ids, file, emitted>>]_vars

C14_Witness ==
    /\ ev.scan = "index_failed"
    /\ ev.ended = "returned"
    /\ ev.result = 0
    /\ file.kind = "ok"
    /\ seen_ids = file.ids
    /\ seen_ids # {}

\* The keys of the record fetch_settlement_details returns (lines 432-440),
\* and the call of it that has returned.
RecordFields ==
    {"id", "title", "reward", "deadline", "summary", "proof", "claim_url"}
DetailsReturned == probe.fn = "fetch_settlement_details" /\ probe.done

\* C15 (as stated): fetch_settlement_details returns, also when the fetch
\* fails, a record with all seven keys whose id is the url; after a failed
\* fetch the record carries the default title and the id, and every other
\* field, reward included, is None.
C15_PlaceholderAllNull ==
    DetailsReturned =>
       /\ DOMAIN probe.out = RecordFields
       /\ probe.out.id = probe.url
       /\ ~probe.response.ok =>
             /\ probe.out.title = DefaultTitle
             /\ \A f \in RecordFields \ {"id", "title"} : probe.out[f] = NoneVal

\* C15 (amended): fetch_settlement_details returns, also when the fetch fails,
\* a record with all seven keys whose id is the url; after a failed fetch the
\* record carries the default title, the id and the reward "Not listed", and
\* deadline, summary, proof and claim_url are None.
C15_PlaceholderKeepsSentinel ==
    DetailsReturned =>
       /\ DOMAIN probe.out = RecordFields
       /\ probe.out.id = probe.url
       /\ ~probe.response.ok =>
             /\ probe.out.title = DefaultTitle
             /\ probe.out.reward = NotListed
             /\ \A f \in {"deadline", "summary", "proof", "claim_url"} :
                   probe.out[f] = NoneVal

C15_Witness ==
    /\ DetailsReturned
    /\ ~probe.response.ok
    /\ probe.out.id = probe.url
    /\ probe.out.reward = NotListed

\* C16: in every record fetch_settlement_details returns, whatever the page
\* holds and also after a failed fetch, reward is a string that is neither
\* None nor empty: payout text taken from the page, or "Not listed".
C16_RewardNeverBlank ==
    DetailsReturned =>
       /\ probe.out.reward # NoneVal
       /\ probe.out.reward # <<>>

\* The page of a fetch that succeeded, and what its lines hold.
FetchedPage == DetailsReturned /\ probe.response.ok
NoKeywordLine(page) ==
    \A k \in 1..Len(page) : ~Contains(page[k].text, RewardKeywords)
NoDollarLine(page) ==
    \A k \in 1..Len(page) :
       ~(/\ page[k].name = "p"
         /\ Contains(page[k].text, {"$25"})
         /\ Contains(page[k].text, FallbackWords \cup RewardKeywords))

\* C17 (as stated): on every page fetched successfully on which no line
\* contains a recognised reward keyword, the reward is "Not listed".
C17_NoKeywordGivesSentinel ==
    (FetchedPage /\ NoKeywordLine(probe.response.page)) =>
       probe.out.reward = NotListed

\* C17 (amended): on every page fetched successfully on which no line contains
\* a recognised reward keyword and no p, li or strong line contains both a "$"
\* and one of award, payment, payout, cash, benefit, the reward is
\* "Not listed".
C17_NoKeywordNoDollarGivesSentinel ==
    (/\ FetchedPage
     /\ NoKeywordLine(probe.response.page)
     /\ NoDollarLine(probe.response.page)) =>
       probe.out.reward = NotListed

C17_Witness ==
    /\ FetchedPage
    /\ NoKeywordLine(probe.response.page)
    /\ NoDollarLine(probe.response.page)
    /\ \E k \in 1..Len(probe.response.page) :
          Contains(probe.response.page[k].text, {"$25"})
    /\ probe.out.reward = NotListed

\* C18: when channel.send fails for an item, the failure is logged and nothing
\* more: the send is not tried again, the id of the item is committed to
\* seen_ids all the same, the run does not end by an exception and the
\* scheduler's loop keeps running.
C18_NotifierFailureIsOnlyLogged ==
    [][\A r \in Runs :
          Happened("send_fail", r) =>
             /\ run'[r].pc # "send"
             /\ run[r].details.id \in seen_ids'
             /\ ev'.ended # "raised"
             /\ loop_running' = loop_running]_vars

\* C19: in a run, send number i starts after exactly i - 1 pauses: none
\* before the first, one between every two successive sends.  A pause is
\* taken only while another item follows, so a run never ends in or after a
\* pause: it ends after n >= 1 sends with n - 1 pauses behind it, and a run
\* that has nothing to send takes none.
C19_PausesBetweenEmissions ==
    /\ [](\A r \in Runs :
             InFlight(r) =>
                /\ run[r].pauses = run[r].i - 1
                /\ run[r].pc = "sleep" => run[r].i < Len(run[r].new_links))
    /\ [][\A r \in Runs :
             /\ (InFlight(r) /\ ev'.who = r /\ ev'.ended # "no") =>
                   /\ run[r].pc # "sleep"
                   /\ run[r].pauses = run[r].i - 1
             /\ (~InFlight(r) /\ ev'.who = r /\ ev'.ended # "no") =>
                   /\ ev'.result = 0
                   /\ run'[r].pauses = 0]_vars

C19_Witness ==
    /\ run["manual"].pc = "send"
    /\ run["manual"].i = MAX_POSTS_PER_RUN
    /\ run["manual"].pauses = MAX_POSTS_PER_RUN - 1
    /\ run["manual"].pauses > 0
    /\ ev.op = "sleep_done"

\* The call of is_bad_reward_heading that has returned; a text that ends in
\* "?" and holds no "$".
HeadingReturned == probe.fn = "is_bad_reward_heading" /\ probe.done
BareQuestion(text) == EndsWith(text, "?") /\ ~Contains(text, {"$25"})

\* C20 (as stated): is_bad_reward_heading is True on every candidate that ends
\* in "?" and holds no "$", and the keyword pass never takes such a candidate
\* as the reward.
C20_QuestionsAreRejected ==
    /\ (HeadingReturned /\ BareQuestion(probe.text)) => probe.out = TRUE
    /\ (FetchedPage /\ probe.out.reward = KeywordReward(probe.response.page)) =>
          ~BareQuestion(probe.out.reward)

\* C20 (amended): is_bad_reward_heading is True on every candidate that ends
\* in "?" and holds neither a "$" nor one of the markers varies, pending, tbd,
\* to be determined, and the keyword pass never takes such a candidate as the
\* reward.
C20_UnmarkedQuestionsAreRejected ==
    /\ (/\ HeadingReturned
        /\ BareQuestion(probe.text)
        /\ ~Contains(probe.text, Markers)) => probe.out = TRUE
    /\ (FetchedPage /\ probe.out.reward = KeywordReward(probe.response.page)) =>
          ~(/\ BareQuestion(probe.out.reward)
            /\ ~Contains(probe.out.reward, Markers))

C20_Witness ==
    /\ HeadingReturned
    /\ BareQuestion(probe.text)
    /\ ~Contains(probe.text, Markers)
    /\ ~Contains(probe.text, BadPhrases)
    /\ probe.out = TRUE

\* Value j is the first of those with the highest score.
C21_Wins(scores, j) ==
    /\ \A h \in 1..Len(scores) : scores[h] <= scores[j]
    /\ \A h \in 1..(j - 1) : scores[h] < scores[j]
C21_Heading(tag) == tag.text \in {<<"proof">>, <<"proof", "required">>}
C21_BothAnswers(page) ==
    /\ \E k \in 1..Len(page) : page[k].text = <<"proof", ":", "no">>
    /\ \E k \in 1..Len(page) :
          /\ C21_Heading(page[k])
          /\ NextSibling(page, k) # 0
          /\ page[NextSibling(page, k)].text = <<"yes">>

\* C21: on a page fetched successfully the proof is taken from the candidate
\* with the highest score_proof_answer among the same-line "label: value"
\* candidates and the headings answered by their next non-empty sibling, the
\* first such candidate met when several share the highest score (None when
\* there is no candidate or the winning value is empty); and a page with
\* both "Proof: No" and a heading "Proof Required?" answered "Yes" gives the
\* negative sentence, in either document order.
C21_BestProofAnswerWins ==
    FetchedPage =>
       LET values == ProofValues(probe.response.page)
           scores == [h \in 1..Len(values) |-> score_proof_answer(values[h])]
       IN /\ values = <<>> => probe.out.proof = NoneVal
          /\ \A j \in 1..Len(values) :
                C21_Wins(scores, j) =>
                   probe.out.proof =
                      IF values[j] = <<>> THEN NoneVal
                      ELSE normalize_proof_answer(values[j])
          /\ values # <<>> => \E j \in 1..Len(values) : C21_Wins(scores, j)
          /\ C21_BothAnswers(probe.response.page) =>
                probe.out.proof = NegativeSentence

C21_Witness ==
    /\ FetchedPage
    /\ probe.response.page =
          <<[name |-> "p", text |-> <<"proof", "required">>],
            [name |-> "p", text |-> <<"yes">>],
            [name |-> "p", text |-> <<"proof", ":", "no">>]>>
    /\ probe.out.proof = NegativeSentence

\* The ways in which run_settlement_scan returns 0 without having looked for
\* new links, and the way in which it returns 0 after having found none.
C24_CouldNotWork == {"no_channel", "index_failed", "empty"}
C24_NothingNew == ev.scan = "listed" /\ ev.fresh = {} /\ ev.ended = "returned"

\* C24: a scheduled run that could not work (no target channel, a failed
\* index fetch, an index without links) returns 0 at once, and the scheduler
\* then sets last_scan_time and doubles the interval up to the ceiling, as it
\* does after a run that found nothing new.
C24_FailureBacksOffLikeNothingNew ==
    [][/\ (ev'.who = "sched" /\ ev'.scan \in C24_CouldNotWork) =>
             /\ ev'.ended = "returned"
             /\ ev'.result = 0
             /\ ~InFlight("sched")'
             /\ last_scan_age' = 0
             /\ CURRENT_INTERVAL_MINUTES' =
                   Min(MAX_INTERVAL_MINUTES, 2 * CURRENT_INTERVAL_MINUTES)
       /\ (ev'.who = "sched" /\ C24_NothingNew') =>
             /\ ev'.result = 0
             /\ last_scan_age' = 0
             /\ CURRENT_INTERVAL_MINUTES' =
                   Min(MAX_INTERVAL_MINUTES, 2 * CURRENT_INTERVAL_MINUTES)
      ]_vars

C24_Witness ==
    /\ ev.who = "sched"
    /\ ev.scan = "index_failed"
    /\ ev.ended = "returned"
    /\ last_scan_age = 0
    /\ CURRENT_INTERVAL_MINUTES = MAX_INTERVAL_MINUTES
    /\ seen_ids # Urls

\* C22: a scan in flight is left alone by every step that is not its own
\* (oca_stop, oca_start, a tick, another scan), and it ends only by
\* returning, after all of its items: the count returned is the number of
\* its items and, for a scheduled run, last_scan_time is stamped and the
\* interval is set (to the base interval, items having been posted).
C22_StartedScanRunsToCompletion ==
    [][\A r \in Runs :
          InFlight(r) =>
             /\ ev'.who # r => run'[r] = run[r]
             /\ run'[r].pc = "idle" =>
                   /\ ev'.who = r
                   /\ ev'.ended = "returned"
                   /\ ev'.result = Len(run[r].new_links)
                   /\ r = "sched" =>
                         /\ last_scan_age' = 0
                         /\ CURRENT_INTERVAL_MINUTES' = BASE_INTERVAL_MINUTES
      ]_vars

\* The item a run holds is one whose detail fetch failed: what the run keeps
\* of it is what it keeps of the placeholder record.
C25_FailedItem(r) ==
    run[r].details =
       Kept(fetch_settlement_details(run[r].new_links[run[r].i], FailedFetch))

\* C25: an item whose detail fetch failed is delivered as its placeholder
\* record, its id is added to seen_ids and it is counted; and a scan that
\* starts later in the same process takes up no item this process has
\* delivered, so the item is neither extracted nor delivered again.
C25_FailedItemIsHandledOnce ==
    [][\A r \in Runs :
          /\ (Happened("deliver", r) /\ C25_FailedItem(r)) =>
                run[r].details.id \in emitted'
          /\ (Happened("send_done", r) /\ C25_FailedItem(r)) =>
                /\ run[r].details.id \in seen_ids'
                /\ IF run[r].i < Len(run[r].new_links)
                   THEN run'[r].count = run[r].count + 1
                   ELSE ev'.result = run[r].count + 1
          /\ (ev'.who = r /\ ev'.scan = "listed") =>
                Range(run'[r].new_links) \cap emitted = {}
      ]_vars

\* C23: while auto-posting stays enabled, every scan discovers the same
\* links and the notifier and the store work, every link that is not in
\* seen_ids is eventually delivered and in seen_ids, although a run takes at
\* most MAX_POSTS_PER_RUN of the new links, the smallest ones, and leaves the
\* others to later runs.
C23_EveryNewLinkIsEventuallyPosted ==
    /\ \A u \in Urls :
          (u \notin seen_ids) ~> (u \in emitted /\ u \in seen_ids)
    /\ [][\A r \in Runs :
             (ev'.who = r /\ ev'.scan = "listed") =>
                run'[r].new_links =
                   FirstAscending(Urls \ seen_ids, MAX_POSTS_PER_RUN)]_vars

\* A scheduled run has posted the link that its predecessor left over.
C23_Witness ==
    /\ NumUrls > MAX_POSTS_PER_RUN
    /\ seen_ids = Urls
    /\ emitted = Urls
    /\ file = GoodFile(Urls)
    /\ ev.who = "sched"
    /\ ev.ended = "returned"
    /\ ev.result = 1

====
